---- MODULE Spec2Model ----
(***************************************************************************)
(* The wallet page of the frontend: the WalletPage component               *)
(* (frontend/src/components/UserWallet.tsx), the localStorage slot         *)
(* 'wallet' it mirrors its session into, the POST /wallet/create request   *)
(* it issues, and the App shell with its logout handler.                   *)
(*                                                                         *)
(* JavaScript values are records [t, s, n, f]; a string held by            *)
(* localStorage or carried by a response body is a sequence of JSON        *)
(* tokens, so that JSON.stringify and JSON.parse are real conversions.     *)
(***************************************************************************)
EXTENDS Naturals, Sequences, FiniteSets

VARIABLES
    storage,      \* localStorage slot 'wallet': [has, text]
    wallet,       \* WalletPage state `wallet` (useState<Wallet | null>)
    username,     \* WalletPage state `username`
    loading,      \* WalletPage state `loading`
    phase,        \* "mounting": first render done, effect pending; "ready"
    crashed,      \* an exception escaped the mount effect: the tree is gone
    calls,        \* suspended invocations of handleCreateWallet
    sent,         \* fetch calls issued since the page was loaded
    appUsername,  \* App state `username` (the shell with the logout button)
    appAddress,   \* App state `address`
    last,         \* history: how the most recently finished invocation ended
    lastEvent,    \* history: the handler that ran most recently
    writes,       \* history: localStorage.setItem calls since the page was loaded
    saved,        \* history: the value most recently written to the slot
    loaded        \* history: the previous read of the slot, until the next write

vars == <<storage, wallet, username, loading, phase, crashed, calls, sent,
          appUsername, appAddress, last, lastEvent, writes, saved, loaded>>

\* Requests one page load may issue in the model.
MaxRequests == 2

----------------------------------------------------------------------------
\* JavaScript / JSON values

V(t, s, n, f) == [t |-> t, s |-> s, n |-> n, f |-> f]

NullV == V("null", "", 0, <<>>)

Num(n) == V("num", "", n, <<>>)

Str(s) == V("str", s, 0, <<>>)

\* An object: its own properties in insertion order, each [key, val].
Obj(f) == V("obj", "", 0, f)

Field(k, v) == [key |-> k, val |-> v]

\* JavaScript truthiness: null, 0 and "" are falsy, every object is truthy.
Truthy(v) ==
    \/ v.t = "obj"
    \/ v.t = "str" /\ v.s # ""
    \/ v.t = "num" /\ v.n # 0

HasKey(v, k) == v.t = "obj" /\ \E i \in 1..Len(v.f) : v.f[i].key = k

\* Property read v[k]; a missing property is listed as absent by HasKey.
Get(v, k) ==
    IF HasKey(v, k)
    THEN (v.f[CHOOSE i \in 1..Len(v.f) : v.f[i].key = k]).val
    ELSE NullV

\* Property write on the member list f: an existing key keeps its place.
Put(f, k, v) ==
    IF \E i \in 1..Len(f) : f[i].key = k
    THEN [i \in 1..Len(f) |-> IF f[i].key = k THEN Field(k, v) ELSE f[i]]
    ELSE Append(f, Field(k, v))

----------------------------------------------------------------------------
\* JSON text as tokens

Tk(k, s, n) == [k |-> k, s |-> s, n |-> n]

LBRACE == Tk("{", "", 0)

RBRACE == Tk("}", "", 0)

COLON == Tk(":", "", 0)

COMMA == Tk(",", "", 0)

NULLTOK == Tk("null", "", 0)

\* A character sequence that is no JSON token.
JUNK == Tk("junk", "", 0)

\* Insignificant white space between tokens.
WS == Tk(" ", "", 0)

StrTok(s) == Tk("str", s, 0)

NumTok(n) == Tk("num", "", n)

IsScalarTok(t) == t.k \in {"str", "num", "null"}

ScalarOf(t) ==
    CASE t.k = "str" -> Str(t.s)
      [] t.k = "num" -> Num(t.n)
      [] OTHER -> NullV

ScalarText(v) ==
    CASE v.t = "str" -> <<StrTok(v.s)>>
      [] v.t = "num" -> <<NumTok(v.n)>>
      [] OTHER -> <<NULLTOK>>

RECURSIVE MembersText(_, _)
MembersText(f, i) ==
    IF i > Len(f) THEN <<>>
    ELSE (IF i > 1 THEN <<COMMA>> ELSE <<>>)
         \o <<StrTok(f[i].key), COLON>> \o ScalarText(f[i].val)
         \o MembersText(f, i + 1)

\* JSON.stringify(v)
JSONstringify(v) ==
    IF v.t = "obj"
    THEN <<LBRACE>> \o MembersText(v.f, 1) \o <<RBRACE>>
    ELSE ScalarText(v)

SyntaxError == [ok |-> FALSE, v |-> NullV]

Parsed(v) == [ok |-> TRUE, v |-> v]

\* members of an object literal from position i on, acc the members so far
RECURSIVE ParseMembers(_, _, _)
ParseMembers(text, i, acc) ==
    IF /\ i + 3 <= Len(text)
       /\ text[i].k = "str"
       /\ text[i + 1] = COLON
       /\ IsScalarTok(text[i + 2])
    THEN LET acc2 == Put(acc, text[i].s, ScalarOf(text[i + 2]))
         IN  IF text[i + 3] = RBRACE
             THEN (IF i + 3 = Len(text) THEN Parsed(Obj(acc2)) ELSE SyntaxError)
             ELSE IF text[i + 3] = COMMA
                  THEN ParseMembers(text, i + 4, acc2)
                  ELSE SyntaxError
    ELSE SyntaxError

IsInk(t) == t # WS

\* JSON.parse(text): the value, or the SyntaxError it throws
JSONparse(text) ==
    LET ink == SelectSeq(text, IsInk)
    IN  IF Len(ink) = 1 /\ IsScalarTok(ink[1]) THEN Parsed(ScalarOf(ink[1]))
        ELSE IF ink = <<LBRACE, RBRACE>> THEN Parsed(Obj(<<>>))
        ELSE IF Len(ink) > 2 /\ ink[1] = LBRACE THEN ParseMembers(ink, 2, <<>>)
        ELSE SyntaxError

----------------------------------------------------------------------------
\* The durable slot

Absent == [has |-> FALSE, text |-> <<>>]

Stored(text) == [has |-> TRUE, text |-> text]

\* Reading another key than the one written: getItem returns null.
StoredTruthy_WrongKey(slot) == FALSE

\* setItem given the object itself: it is stored as "[object Object]".
save_Unserialized(session) == Stored(<<JUNK>>)

\* localStorage.setItem('wallet', JSON.stringify(newWallet))
save(session) == Stored(JSONstringify(session))

\* localStorage.getItem('wallet') is truthy: present and not the empty string
StoredTruthy(slot) == slot.has /\ slot.text # <<>>

----------------------------------------------------------------------------
\* The environment: what the visitor types, what the endpoint answers, what
\* an earlier visit (or anything else on the origin) left in the slot.

Names == {"", "alice", "bob"}

FullSession == Obj(<<Field("name", Str("carol")), Field("address", Str("bc1q")),
                     Field("balance", Num(5))>>)

NoNameBody == Obj(<<Field("address", Str("bc1q")), Field("balance", Num(0))>>)

NoAddressBody == Obj(<<Field("name", Str("alice"))>>)

EmptyAddressBody == Obj(<<Field("name", Str("alice")), Field("address", Str("")),
                          Field("balance", Num(0))>>)

OtherSession == Obj(<<Field("address", Str("bc1p")), Field("name", Str("bob")),
                      Field("balance", Num(0))>>)

ResponseBodies ==
    {JSONstringify(v) : v \in {FullSession, OtherSession, NoNameBody,
                               NoAddressBody, EmptyAddressBody, NullV}}
    \cup {<<JUNK>>, <<>>}

StoredSession == Obj(<<Field("name", Str("alice")), Field("address", Str("bc1q")),
                       Field("balance", Num(0))>>)

ReorderedSessionText ==
    <<LBRACE, StrTok("address"), COLON, StrTok("bc1q"), COMMA, WS,
      StrTok("balance"), COLON, NumTok(5), COMMA, WS,
      StrTok("name"), COLON, StrTok("bob"), RBRACE>>

InitialSlots ==
    {Absent, Stored(<<>>), Stored(<<LBRACE, StrTok("name")>>),
     Stored(JSONstringify(NoAddressBody)), Stored(JSONstringify(StoredSession)),
     Stored(ReorderedSessionText)}

----------------------------------------------------------------------------
\* What is on screen

\* The form shown whether or not a wallet is known.
FormRendered_Always == ~crashed /\ phase = "ready"

\* `if (wallet)` shows the wallet details, otherwise the creation form
FormRendered == ~crashed /\ phase = "ready" /\ ~Truthy(wallet)

\* The button without its disabled attribute.
SubmitDisabled_Never == FALSE

\* <button disabled={loading}>
SubmitDisabled == loading

\* The handler without its check of the name.
EmptyName_Unchecked(u) == FALSE

\* `if (!username)`
EmptyName(u) == u = ""

\* The logout control is offered while a session is shown.
LogoutOffered == ~crashed /\ phase = "ready" /\ Truthy(wallet)

\* Nothing written to the slot by this program yet.
NotSaved == [has |-> FALSE, v |-> NullV]

Saved(v) == [has |-> TRUE, v |-> v]

\* No earlier read of the slot to compare with.
NotLoaded == [has |-> FALSE, again |-> FALSE, slot |-> Absent, wallet |-> NullV,
              crashed |-> FALSE]

\* A read of `slot` that set the wallet to `w`, or threw; `again` tells that
\* an earlier read of the same slot preceded it with no write in between.
Loaded(slot, w, threw, again) ==
    [has |-> TRUE, again |-> again, slot |-> slot, wallet |-> w, crashed |-> threw]

NoCall == [kind |-> "none", username |-> "", body |-> <<>>, slot0 |-> Absent]

Ended(c, kind) ==
    [kind |-> kind, username |-> c.username, body |-> c.body, slot0 |-> c.slot0]

----------------------------------------------------------------------------
\* Construction: useState initial values, first render done, effect pending.

Init ==
    /\ storage \in InitialSlots
    /\ wallet = NullV
    /\ username = ""
    /\ loading = FALSE
    /\ phase = "mounting"
    /\ crashed = FALSE
    /\ calls = {}
    /\ sent = 0
    /\ appUsername = NullV
    /\ appAddress = NullV
    /\ last = NoCall
    /\ lastEvent = "mount"
    /\ writes = 0
    /\ saved = NotSaved
    /\ loaded = NotLoaded

\* The effect removing the item once it has read it.
LoadEffect_Consuming ==
    /\ phase = "mounting"
    /\ phase' = "ready"
    /\ lastEvent' = "effect"
    /\ IF StoredTruthy(storage)
       THEN LET r == JSONparse(storage.text)
            IN  IF r.ok
                THEN wallet' = r.v /\ crashed' = FALSE
                ELSE wallet' = wallet /\ crashed' = TRUE
       ELSE wallet' = wallet /\ crashed' = FALSE
    /\ storage' = Absent
    /\ loaded' = Loaded(storage, wallet', crashed', loaded.has)
    /\ UNCHANGED <<username, loading, calls, sent, appUsername, appAddress,
                   last, writes, saved>>

\* useEffect(() => {...}, []): rehydrate from the slot
LoadEffect ==
    /\ phase = "mounting"
    /\ phase' = "ready"
    /\ lastEvent' = "effect"
    /\ IF StoredTruthy(storage)
       THEN LET r == JSONparse(storage.text)
            IN  IF r.ok
                THEN wallet' = r.v /\ crashed' = FALSE
                ELSE wallet' = wallet /\ crashed' = TRUE
       ELSE wallet' = wallet /\ crashed' = FALSE
    /\ loaded' = Loaded(storage, wallet', crashed', loaded.has)
    /\ UNCHANGED <<storage, username, loading, calls, sent, appUsername,
                   appAddress, last, writes, saved>>

\* onChange of the text input: setUsername(e.target.value)
Type(name) ==
    /\ FormRendered
    /\ username' = name
    /\ lastEvent' = "type"
    /\ UNCHANGED <<storage, wallet, loading, phase, crashed, calls, sent,
                   appUsername, appAddress, last, writes, saved, loaded>>

\* handleCreateWallet without setLoading(true).
handleCreateWallet_NoLoading ==
    IF EmptyName(username)
    THEN /\ lastEvent' = "rejected"
         /\ UNCHANGED <<storage, wallet, username, loading, phase, crashed,
                        calls, sent, appUsername, appAddress, last, writes,
                        saved, loaded>>
    ELSE /\ sent < MaxRequests
         /\ sent' = sent + 1
         /\ calls' = calls \cup {[id |-> sent + 1, username |-> username,
                                   pc |-> "fetch", body |-> <<>>,
                                   slot0 |-> storage]}
         /\ lastEvent' = "sent"
         /\ UNCHANGED <<storage, wallet, username, loading, phase, crashed,
                        appUsername, appAddress, last, writes, saved, loaded>>

\* handleCreateWallet up to its first await
handleCreateWallet ==
    IF EmptyName(username)
    THEN /\ lastEvent' = "rejected"
         /\ UNCHANGED <<storage, wallet, username, loading, phase, crashed,
                        calls, sent, appUsername, appAddress, last, writes,
                        saved, loaded>>
    ELSE /\ sent < MaxRequests
         /\ loading' = TRUE
         /\ sent' = sent + 1
         /\ calls' = calls \cup {[id |-> sent + 1, username |-> username,
                                   pc |-> "fetch", body |-> <<>>,
                                   slot0 |-> storage]}
         /\ lastEvent' = "sent"
         /\ UNCHANGED <<storage, wallet, username, phase, crashed,
                        appUsername, appAddress, last, writes, saved, loaded>>

\* A click on the submit button; a disabled button dispatches no click.
ClickSubmit ==
    /\ FormRendered
    /\ IF SubmitDisabled
       THEN /\ lastEvent' = "ignored"
            /\ UNCHANGED <<storage, wallet, username, loading, phase, crashed,
                           calls, sent, appUsername, appAddress, last, writes,
                           saved, loaded>>
       ELSE handleCreateWallet

\* The catch block without the finally that resets the loading flag.
Catch_NoFinally(c, kind) ==
    /\ calls' = calls \ {c}
    /\ last' = Ended(c, kind)
    /\ lastEvent' = "failed"
    /\ UNCHANGED <<storage, wallet, username, loading, phase, crashed, sent,
                   appUsername, appAddress, writes, saved, loaded>>

\* The catch block sending the request again by itself.
Catch_Retry(c, kind) ==
    /\ sent < MaxRequests
    /\ sent' = sent + 1
    /\ calls' = (calls \ {c})
                 \cup {[c EXCEPT !.id = sent + 1, !.pc = "fetch", !.body = <<>>]}
    /\ last' = Ended(c, kind)
    /\ lastEvent' = "failed"
    /\ UNCHANGED <<storage, wallet, username, loading, phase, crashed,
                   appUsername, appAddress, writes, saved, loaded>>

\* catch: console.error, alert; finally: setLoading(false)
Catch(c, kind) ==
    /\ calls' = calls \ {c}
    /\ loading' = FALSE
    /\ last' = Ended(c, kind)
    /\ lastEvent' = "failed"
    /\ UNCHANGED <<storage, wallet, username, phase, crashed, sent,
                   appUsername, appAddress, writes, saved, loaded>>

\* `await fetch(...)` settles: the request could not be sent, or a response
\* arrived; `if (!response.ok) throw`; otherwise on to `await response.json()`
FetchSettles(c) ==
    /\ c \in calls
    /\ c.pc = "fetch"
    /\ \/ Catch(c, "network")
       \/ Catch(c, "status")
       \/ \E b \in ResponseBodies :
             /\ calls' = (calls \ {c}) \cup {[c EXCEPT !.pc = "json", !.body = b]}
             /\ lastEvent' = "response"
             /\ UNCHANGED <<storage, wallet, username, loading, phase,
                            crashed, sent, appUsername, appAddress, last,
                            writes, saved, loaded>>

\* The success path without its localStorage.setItem.
JsonSettles_NoSave(c) ==
    /\ c \in calls
    /\ c.pc = "json"
    /\ LET r == JSONparse(c.body)
       IN  IF ~r.ok
           THEN Catch(c, "syntax")
           ELSE /\ wallet' = r.v
                /\ loading' = FALSE
                /\ calls' = calls \ {c}
                /\ last' = Ended(c, "ok")
                /\ lastEvent' = "created"
                /\ UNCHANGED <<storage, username, phase, crashed, sent,
                               appUsername, appAddress, writes, saved, loaded>>

\* `await response.json()` settles: a SyntaxError goes to catch; otherwise
\* localStorage.setItem('wallet', JSON.stringify(newWallet)); setWallet(newWallet);
\* finally setLoading(false)
JsonSettles(c) ==
    /\ c \in calls
    /\ c.pc = "json"
    /\ LET r == JSONparse(c.body)
       IN  IF ~r.ok
           THEN Catch(c, "syntax")
           ELSE /\ storage' = save(r.v)
                /\ wallet' = r.v
                /\ loading' = FALSE
                /\ calls' = calls \ {c}
                /\ last' = Ended(c, "ok")
                /\ lastEvent' = "created"
                /\ writes' = writes + 1
                /\ saved' = Saved(r.v)
                /\ loaded' = NotLoaded
                /\ UNCHANGED <<username, phase, crashed, sent, appUsername,
                               appAddress>>

\* App.handleLogout: setUsername(null); setAddress(null)
handleLogout ==
    /\ LogoutOffered
    /\ appUsername' = NullV
    /\ appAddress' = NullV
    /\ lastEvent' = "logout"
    /\ UNCHANGED <<storage, wallet, username, loading, phase, crashed, calls,
                   sent, last, writes, saved, loaded>>

\* The page is loaded again: every component is constructed anew, pending
\* requests die with the old document, the slot survives.
Reload ==
    /\ wallet' = NullV
    /\ username' = ""
    /\ loading' = FALSE
    /\ phase' = "mounting"
    /\ crashed' = FALSE
    /\ calls' = {}
    /\ sent' = 0
    /\ appUsername' = NullV
    /\ appAddress' = NullV
    /\ last' = NoCall
    /\ lastEvent' = "mount"
    /\ writes' = 0
    /\ UNCHANGED <<storage, saved, loaded>>

Next ==
    \/ LoadEffect
    \/ \E name \in Names : Type(name)
    \/ ClickSubmit
    \/ \E c \in calls : FetchSettles(c)
    \/ \E c \in calls : JsonSettles(c)
    \/ handleLogout
    \/ Reload

Spec == Init /\ [][Next]_vars

----------------------------------------------------------------------------
\* The four states of the session state machine, read off the component.
\* The form is on screen in NoSession, Creating and CreationFailed alike;
\* what tells the last from the first is that the catch block has run for
\* the most recent request.

ControllerState ==
    IF crashed THEN "Crashed"
    ELSE IF phase = "mounting" THEN "Initializing"
    ELSE IF Truthy(wallet) THEN "Active"
    ELSE IF loading THEN "Creating"
    ELSE IF last.kind \in {"network", "status", "syntax"} THEN "CreationFailed"
    ELSE "NoSession"

TypeOK ==
    /\ storage.has \in BOOLEAN
    /\ loading \in BOOLEAN
    /\ crashed \in BOOLEAN
    /\ phase \in {"mounting", "ready"}
    /\ username \in Names
    /\ sent \in 0..MaxRequests
    /\ wallet.t \in {"null", "num", "str", "obj"}
    /\ writes \in 0..sent
    /\ saved.has \in BOOLEAN
    /\ loaded.has \in BOOLEAN

----------------------------------------------------------------------------
\* Vocabulary of the properties

\* A WalletSession with all three fields present and non-empty.
IsWalletSession(v) ==
    /\ v.t = "obj"
    /\ HasKey(v, "name") /\ Get(v, "name").t = "str" /\ Get(v, "name").s # ""
    /\ HasKey(v, "address") /\ Get(v, "address").t = "str"
    /\ Get(v, "address").s # ""
    /\ HasKey(v, "balance") /\ Get(v, "balance").t = "num"

\* v is exactly the three-field session {name, address, balance}.
IsSessionOf(v, name, address, balance) ==
    /\ v.t = "obj"
    /\ Len(v.f) = 3
    /\ HasKey(v, "name") /\ Get(v, "name") = name
    /\ HasKey(v, "address") /\ Get(v, "address") = address
    /\ HasKey(v, "balance") /\ Get(v, "balance") = balance

\* The body of the most recently finished request, as response.json() reads it.
LastBody == JSONparse(last.body)

LastBodyHasAddress == LastBody.ok /\ HasKey(LastBody.v, "address")

\* What the slot holds, as a load reads it.
SlotValue == JSONparse(storage.text)

SlotHoldsSession == storage.has /\ SlotValue.ok /\ IsWalletSession(SlotValue.v)

----------------------------------------------------------------------------
\* C1: after a creation answered 2xx with a body that has an address, the
\* controller is Active with the session {name: body.name or else the
\* submitted username, address: body.address, balance: body.balance or else
\* 0}, and the slot holds that same three-field value.
C1_CreatedSessionHasFallbacks ==
    (lastEvent = "created" /\ LastBodyHasAddress) =>
        LET b == LastBody.v
            name == IF HasKey(b, "name") THEN Get(b, "name") ELSE Str(last.username)
            balance == IF HasKey(b, "balance") THEN Get(b, "balance") ELSE Num(0)
        IN  /\ ControllerState = "Active"
            /\ IsSessionOf(wallet, name, Get(b, "address"), balance)
            /\ storage.has /\ SlotValue.ok
            /\ IsSessionOf(SlotValue.v, name, Get(b, "address"), balance)

\* C2: a 2xx response whose body lacks `address`, or cannot be parsed, ends
\* in CreationFailed, never in Active, with the slot as it was at the submit.
C2_BodyWithoutAddressFails ==
    (lastEvent \in {"created", "failed"} /\ last.kind \in {"ok", "syntax"}
        /\ ~LastBodyHasAddress) =>
        /\ ControllerState = "CreationFailed"
        /\ storage = last.slot0

\* C3: when the slot holds invalid JSON or a value that is no full
\* WalletSession, the controller settles in NoSession after its
\* initialization and no exception is raised.
C3_CorruptSlotLoadsAbsent ==
    (lastEvent = "effect" /\ storage.has /\ ~SlotHoldsSession) =>
        /\ ~crashed
        /\ ControllerState = "NoSession"

C5_OneRequestInFlight == Cardinality(calls) <= 1

\* C5, its case: a click on the submit button arrived while a request for a
\* non-empty name was in flight, and that request is still the only one.
C5_Witness ==
    /\ lastEvent = "ignored"
    /\ username # ""
    /\ sent = 1
    /\ \E c \in calls : calls = {c} /\ c.pc = "fetch"

\* C6: whenever the controller is Active its session has name, address and
\* balance present and non-empty.
C6_ActiveSessionIsComplete ==
    ControllerState = "Active" => IsWalletSession(wallet)

\* C7: a request is only ever issued for a non-empty name, and a submit
\* rejected for its empty name changes neither the controller's state, its
\* wallet, loading flag and requests, nor the slot.
C7_EmptySubmitRejected ==
    [][/\ sent' = sent + 1 => username # ""
       /\ lastEvent' = "rejected" =>
            /\ username = ""
            /\ ControllerState \in {"NoSession", "CreationFailed"}
            /\ ControllerState' = ControllerState
            /\ UNCHANGED <<storage, wallet, username, loading, calls, sent>>]_vars

\* C7, its case: an empty name was submitted after a failed creation.
C7_Witness ==
    /\ lastEvent = "rejected"
    /\ ControllerState = "CreationFailed"
    /\ username = ""

\* C8: a request that could not be sent, or was answered non-2xx, ends in
\* CreationFailed with the loading flag reset and the slot as it was at the
\* submit.
C8_FailedRequestKeepsSlot ==
    (lastEvent = "failed" /\ last.kind \in {"network", "status"}) =>
        /\ ControllerState = "CreationFailed"
        /\ ~loading
        /\ storage = last.slot0

\* C8, its case: "bob" was submitted with the slot absent and the endpoint
\* answered non-2xx.
C8_Witness ==
    /\ lastEvent = "failed"
    /\ last.kind = "status"
    /\ last.username = "bob"
    /\ last.slot0 = Absent
    /\ storage = Absent

\* C9: NoSession is never followed directly by Active, and every request
\* issued leaves the controller in Creating with that request awaiting its
\* response.
C9_CreatingBeforeActive ==
    [][/\ ControllerState = "NoSession" => ControllerState' # "Active"
       /\ sent' = sent + 1 =>
            /\ ControllerState' = "Creating"
            /\ \E c \in calls' : /\ c.id = sent'
                                 /\ c.pc = "fetch"
                                 /\ c.username = username
                                 /\ c \notin calls]_vars

\* C9, its case: a non-empty name was submitted in NoSession and the request
\* is in flight.
C9_Witness ==
    /\ lastEvent = "sent"
    /\ last.kind = "none"
    /\ ControllerState = "Creating"
    /\ \E c \in calls : c.username = "alice" /\ c.pc = "fetch"

\* C10: when the slot holds a valid WalletSession at initialization, the
\* controller settles in Active with exactly that session and no request has
\* been issued.
C10_ValidSlotStartsActive ==
    (lastEvent = "effect" /\ SlotHoldsSession) =>
        /\ ControllerState = "Active"
        /\ IsSessionOf(wallet, Get(SlotValue.v, "name"),
                       Get(SlotValue.v, "address"), Get(SlotValue.v, "balance"))
        /\ storage = Stored(JSONstringify(StoredSession)) => wallet = StoredSession
        /\ sent = 0
        /\ calls = {}

\* C10, its case: the slot was pre-populated with the session of "bob".
C10_Witness ==
    /\ lastEvent = "effect"
    /\ storage = Stored(ReorderedSessionText)
    /\ IsSessionOf(wallet, Str("bob"), Str("bc1q"), Num(5))

\* C11: a session written by a successful creation reads back equal: the
\* slot parses to the value just saved, and after a re-initialization the
\* controller is Active with the valid WalletSession that was saved last.
C11_SaveLoadRoundTrip ==
    /\ (lastEvent = "created" /\ IsWalletSession(wallet)) =>
            /\ StoredTruthy(storage)
            /\ SlotValue = Parsed(wallet)
    /\ (lastEvent = "effect" /\ saved.has /\ IsWalletSession(saved.v)) =>
            /\ ControllerState = "Active"
            /\ wallet = saved.v

\* C11, its case: the session of "bob" was created, the page loaded again
\* and the effect has read the slot.
C11_Witness ==
    /\ lastEvent = "effect"
    /\ saved = Saved(OtherSession)
    /\ wallet = OtherSession

\* C12: the slot is written exactly in the steps that take the controller
\* from Creating to Active, and in no other step.
C12_WriteIffCreated ==
    [][writes' = writes + 1 <=>
        (ControllerState = "Creating" /\ ControllerState' = "Active")]_vars

\* C13: every event leaves the controller initializing or in one of
\* NoSession, Creating, Active, CreationFailed; it never crashes.
C13_NoFatalError ==
    ControllerState \in {"Initializing", "NoSession", "Creating", "Active",
                         "CreationFailed"}

\* C14: a load leaves the slot unchanged, and a load that follows an earlier
\* one with no write in between gives the same result as that one.
C14_LoadIdempotent ==
    [][(phase = "mounting" /\ phase' = "ready") =>
        /\ storage' = storage
        /\ loaded.has =>
            /\ loaded.slot = storage
            /\ wallet' = loaded.wallet
            /\ crashed' = loaded.crashed]_vars

\* C14, its case: the slot held a session and has been loaded a second time.
C14_Witness ==
    /\ lastEvent = "effect"
    /\ loaded.has /\ loaded.again
    /\ Truthy(wallet)

\* C15: a request is only ever issued by a submit with a non-empty name; the
\* step that ends a creation in failure issues none, and a submit in
\* CreationFailed leads to Creating.
C15_NoAutomaticRetry ==
    [][/\ sent' = sent + 1 => (lastEvent' = "sent" /\ username # "")
       /\ lastEvent' = "failed" => (sent' = sent /\ calls' \subseteq calls)
       /\ (ControllerState = "CreationFailed" /\ lastEvent' = "sent") =>
            ControllerState' = "Creating"]_vars

\* C15, its case: after a failed creation the visitor submitted again and
\* the second request is in flight.
C15_Witness ==
    /\ lastEvent = "sent"
    /\ last.kind \in {"network", "status", "syntax"}
    /\ sent = 2
    /\ ControllerState = "Creating"

\* C16: when a request has finished, in whatever way, the loading flag is
\* reset and the controller is in Active or CreationFailed.
C16_FinishedRequestSettles ==
    lastEvent \in {"created", "failed"} =>
        /\ ~loading
        /\ ControllerState \in {"Active", "CreationFailed"}

\* C17: whenever the wallet in memory is non-null the slot is present and
\* holds a text that reads back as that same value, the very text
\* JSON.stringify gives for it when this page wrote it.
C17_SlotMirrorsWallet ==
    wallet # NullV =>
        /\ storage.has
        /\ SlotValue = Parsed(wallet)
        /\ lastEvent = "created" => storage.text = JSONstringify(wallet)

\* C17, its case: a creation has just written the slot and set the wallet.
C17_Witness ==
    /\ lastEvent = "created"
    /\ wallet = FullSession
    /\ storage = Stored(JSONstringify(FullSession))
    /\ last.slot0 # storage

\* C18: the loading flag is true exactly when a creation request is in
\* flight.
C18_LoadingIffInFlight == loading <=> calls # {}

\* C18, its case: the response has arrived and its body is still being read.
C18_Witness ==
    /\ loading
    /\ \E c \in calls : c.pc = "json"

\* C19: every request is issued from NoSession or CreationFailed; while the
\* controller is Active no request is in flight, and its session changes
\* only when the page is loaded again.
C19_NoRequestFromActive ==
    [][/\ sent' = sent + 1 => ControllerState \in {"NoSession", "CreationFailed"}
       /\ ControllerState = "Active" => calls = {}
       /\ (ControllerState = "Active" /\ wallet' # wallet) =>
            (lastEvent' = "mount" /\ wallet' = NullV)]_vars

\* C19, its case: a session is Active after a creation and the page could
\* still issue requests, were the form on screen.
C19_Witness ==
    /\ ControllerState = "Active"
    /\ lastEvent = "created"
    /\ sent < MaxRequests

====
